---------------------------- MODULE Spec2Model ----------------------------
(***************************************************************************)
(* Model of lib/employee.py: the Employee class, a data mapper between     *)
(* in-memory Employee objects and the rows of the `employees` table kept   *)
(* by the module-level storage handle (CURSOR, CONN).                      *)
(*                                                                         *)
(* A row is the positional tuple <<id, name, job_title, department_id>>    *)
(* (Python's row[0..3] are row[1..4] here).  The table is the sequence of  *)
(* its rows in rowid order, which is the order a full scan returns them.   *)
(***************************************************************************)
EXTENDS Integers, Sequences, FiniteSets

\* ------------------------------------------------------------------ bounds
\* Number of successful INSERTs during the life of one table.
MaxSaves == 2

\* The Employee objects the caller can hold a reference to at one time.
Slots == {1, 2}
\* The (name, job_title, department_id) triples the caller passes.
Inputs == {<<"Alice", "Dev", 1>>, <<"Bob", "Ops", 2>>}
Names == {p[1] : p \in Inputs}
\* A name no employee is ever given: the argument of a lookup that misses.
NoSuchName == "Zed"

\* Python's None (SQL NULL) in an id position; rowids start at 1.
None == 0

\* The operations that only read the table.
Queries == {"get_all", "find_by_id", "find_by_name"}
\* The operations that issue a statement changing the database.
Writes == {"create_table", "drop_table", "save", "create", "update", "delete"}

VARIABLES
    tableExists,    \* whether the employees table exists in the database
    rows,           \* the table's rows, in rowid order
    lastrowid,      \* CURSOR.lastrowid
    in_transaction, \* CONN has an open (uncommitted) transaction
    live,           \* the slots that hold an Employee object
    objs,           \* the Employee object of each slot
    call,           \* the last call: operation, receiver, arguments, result
    prev,           \* the operation and receiver of the last call before it
                    \* that was not a query
    idHistory,      \* the ids save assigned, in order, since the table was created
    createLog,      \* the employees returned by create since the table was last empty
    onlyCreates     \* no write other than create happened since the table was last empty

vars == <<tableExists, rows, lastrowid, in_transaction, live, objs,
          call, prev, idHistory, createLog, onlyCreates>>

\* ------------------------------------------------------------ the Employee
\* Employee.__init__(self, name, job_title, department_id, id=None)
Employee(name, job_title, department_id, id) ==
    [id |-> id, name |-> name, job_title |-> job_title,
     department_id |-> department_id]

\* The content of a slot that holds no object.
NoObj == Employee("", "", None, None)

\* Mutant: the row's columns read in the order name, job_title swapped.
new_from_db_swapped(row) == Employee(row[3], row[2], row[4], row[1])

\* Employee.new_from_db(row): employee = cls(row[1], row[2], row[3]);
\* employee.id = row[0]
new_from_db(row) == Employee(row[2], row[3], row[4], row[1])

\* ------------------------------------------------------ the storage engine
RECURSIVE MaxRowId(_)
MaxRowId(t) ==
    IF t = <<>> THEN 0
    ELSE LET m == MaxRowId(Tail(t))
         IN  IF Head(t)[1] > m THEN Head(t)[1] ELSE m

RowIds(t) == {t[i][1] : i \in 1..Len(t)}

\* Mutant: a monotonic id sequence (AUTOINCREMENT), one past the last insert.
NextRowId_autoincrement(t, last) == IF last > MaxRowId(t) THEN last + 1 ELSE MaxRowId(t) + 1

\* Mutant: off by one, the largest id in the table instead of one past it.
NextRowId_stuck(t, last) == IF t = <<>> THEN 1 ELSE MaxRowId(t)

\* id INTEGER PRIMARY KEY, and an INSERT that names no id: the new row's id
\* is one more than the largest id now in the table (1 in an empty table),
\* whatever id the last insert produced (`last`, CURSOR.lastrowid).
NextRowId(t, last) == MaxRowId(t) + 1

\* Mutant: the INSERT binds job_title and name in the wrong order.
InsertRow_misbound(t, id, name, job_title, department_id) ==
    Append(t, <<id, job_title, name, department_id>>)

\* INSERT INTO employees (name, job_title, department_id) VALUES (?, ?, ?)
InsertRow(t, id, name, job_title, department_id) ==
    Append(t, <<id, name, job_title, department_id>>)

\* Mutant: an UPDATE without its WHERE clause.
UpdateRows_all(t, name, job_title, department_id, id) ==
    [i \in 1..Len(t) |-> <<t[i][1], name, job_title, department_id>>]

\* Mutant: the UPDATE binds name and job_title in the wrong order.
UpdateRows_misbound(t, name, job_title, department_id, id) ==
    [i \in 1..Len(t) |->
        IF id # None /\ t[i][1] = id
        THEN <<t[i][1], job_title, name, department_id>>
        ELSE t[i]]

\* UPDATE employees SET name = ?, job_title = ?, department_id = ? WHERE id = ?
\* (id = NULL matches no row)
UpdateRows(t, name, job_title, department_id, id) ==
    [i \in 1..Len(t) |->
        IF id # None /\ t[i][1] = id
        THEN <<t[i][1], name, job_title, department_id>>
        ELSE t[i]]

\* Mutant: the comparison of the WHERE clause off by one row.
DeleteRows_wrong(t, id) == SelectSeq(t, LAMBDA r : id = None \/ r[1] # id + 1)

\* DELETE FROM employees WHERE id = ?
DeleteRows(t, id) == SelectSeq(t, LAMBDA r : id = None \/ r[1] # id)

\* SELECT * FROM employees
SelectAll(t) == t

\* SELECT * FROM employees WHERE id = ?
SelectById(t, id) == SelectSeq(t, LAMBDA r : id # None /\ r[1] = id)

\* Mutant: the lookup matches on job_title.
SelectByName_title(t, name) == SelectSeq(t, LAMBDA r : r[3] = name)

\* SELECT * FROM employees WHERE name is ?
SelectByName(t, name) == SelectSeq(t, LAMBDA r : r[2] = name)

\* .fetchone(): the first row of the result, or None (here: no row)
fetchone(result) == IF result = <<>> THEN <<>> ELSE <<Head(result)>>

\* .fetchall(): every row of the result
fetchall(result) == result

\* cls.new_from_db(row) if row else None.  A result is the sequence of the
\* Employees returned: empty for None.
RowToResult(row) == IF row # <<>> THEN <<new_from_db(row[1])>> ELSE <<>>

\* The statements a handler issues on the storage handle, in program order.
save_io == <<"execute", "commit", "lastrowid">>
\* Mutant: update that forgets to commit.
update_io_nocommit == <<"execute">>
update_io == <<"execute", "commit">>
delete_io == <<"execute", "commit">>
create_table_io == <<"execute", "commit">>
drop_table_io == <<"execute", "commit">>
get_all_io == <<"execute", "fetchall">>
find_by_id_io == <<"execute", "fetchone">>
find_by_name_io == <<"execute", "fetchone">>
\* A handler whose execute raises issues nothing after it.
raised_io == <<"execute">>

\* The connection's transaction state after the handle calls `io`: executing
\* an INSERT, UPDATE or DELETE opens a transaction, commit closes it.
RECURSIVE AfterIO(_, _, _)
AfterIO(txn, io, dml) ==
    IF io = <<>> THEN txn
    ELSE AfterIO(CASE Head(io) = "execute" -> (txn \/ dml)
                   [] Head(io) = "commit" -> FALSE
                   [] OTHER -> txn,
                 Tail(io), dml)

\* ------------------------------------------------------------- bookkeeping
\* rowcount is the number of rows the statement changed (CURSOR.rowcount).
Call(op, obj, params, ret, raised, io, rowcount) ==
    [op |-> op, obj |-> obj, params |-> params, ret |-> ret,
     raised |-> raised, io |-> io, rowcount |-> rowcount]

NoCall == Call("", 0, <<>>, <<>>, FALSE, <<>>, 0)

Record(c) ==
    /\ call' = c
    /\ prev' = IF call.op \in Queries THEN prev
               ELSE [op |-> call.op, obj |-> call.obj]

\* A write other than create: the create log restarts if it left the table
\* empty, and is void otherwise.
OtherWrite ==
    /\ createLog' = <<>>
    /\ onlyCreates' = (tableExists' /\ rows' = <<>>)

Params(e) == <<e.name, e.job_title, e.department_id>>

Init ==
    /\ tableExists = FALSE
    /\ rows = <<>>
    /\ lastrowid = None
    /\ in_transaction = FALSE
    /\ live = {}
    /\ objs = [s \in Slots |-> NoObj]
    /\ call = NoCall
    /\ prev = [op |-> "", obj |-> 0]
    /\ idHistory = <<>>
    /\ createLog = <<>>
    /\ onlyCreates = FALSE

\* ---------------------------------------------------------------- actions
\* Employee.create_table()
create_table ==
    /\ tableExists' = TRUE
    /\ rows' = IF tableExists THEN rows ELSE <<>>
    /\ in_transaction' = AfterIO(in_transaction, create_table_io, FALSE)
    /\ idHistory' = IF tableExists THEN idHistory ELSE <<>>
    /\ OtherWrite
    /\ Record(Call("create_table", 0, <<>>, <<>>, FALSE, create_table_io, 0))
    /\ UNCHANGED <<lastrowid, live, objs>>

\* Employee.drop_table()
drop_table ==
    /\ tableExists' = FALSE
    /\ rows' = <<>>
    /\ in_transaction' = AfterIO(in_transaction, drop_table_io, FALSE)
    /\ idHistory' = <<>>
    /\ OtherWrite
    /\ Record(Call("drop_table", 0, <<>>, <<>>, FALSE, drop_table_io, 0))
    /\ UNCHANGED <<lastrowid, live, objs>>

\* The caller constructs an Employee: Employee(name, job_title, department_id)
construct(s, p) ==
    /\ s \notin live
    /\ live' = live \cup {s}
    /\ objs' = [objs EXCEPT ![s] = Employee(p[1], p[2], p[3], None)]
    /\ Record(Call("__init__", s, p, <<>>, FALSE, <<>>, 0))
    /\ UNCHANGED <<tableExists, rows, lastrowid, in_transaction,
                   idHistory, createLog, onlyCreates>>

\* The caller assigns the attributes of an Employee it holds.
set_attributes(s, p) ==
    /\ s \in live
    /\ Params(objs[s]) # p
    /\ objs' = [objs EXCEPT ![s] = Employee(p[1], p[2], p[3], objs[s].id)]
    /\ Record(Call("__setattr__", s, p, <<>>, FALSE, <<>>, 0))
    /\ UNCHANGED <<tableExists, rows, lastrowid, in_transaction, live,
                   idHistory, createLog, onlyCreates>>

\* The caller drops its reference to an Employee.
discard(s) ==
    /\ s \in live
    /\ live' = live \ {s}
    /\ objs' = [objs EXCEPT ![s] = NoObj]
    /\ Record(Call("__del__", s, <<>>, <<>>, FALSE, <<>>, 0))
    /\ UNCHANGED <<tableExists, rows, lastrowid, in_transaction,
                   idHistory, createLog, onlyCreates>>

\* self.save() on the object e, which is or becomes the object of slot s:
\* execute the INSERT, commit, then self.id = CURSOR.lastrowid.
SaveObject(op, s, e) ==
    IF tableExists
    THEN LET id == NextRowId(rows, lastrowid)
         IN  /\ Len(idHistory) < MaxSaves
             /\ rows' = InsertRow(rows, id, e.name, e.job_title, e.department_id)
             /\ in_transaction' = AfterIO(in_transaction, save_io, TRUE)
             /\ lastrowid' = id
             /\ objs' = [objs EXCEPT ![s] = [e EXCEPT !.id = lastrowid']]
             /\ live' = live \cup {s}
             /\ idHistory' = Append(idHistory, id)
             /\ Record(Call(op, s, Params(e),
                            IF op = "create" THEN <<objs'[s]>> ELSE <<>>,
                            FALSE, save_io, 1))
    ELSE /\ Record(Call(op, s, Params(e), <<>>, TRUE, raised_io, 0))
         /\ UNCHANGED <<rows, in_transaction, lastrowid, objs, live, idHistory>>

\* employee.save()
save(s) ==
    /\ s \in live
    /\ SaveObject("save", s, objs[s])
    /\ UNCHANGED tableExists
    /\ OtherWrite

\* Employee.create(name, job_title, department_id)
create(s, p) ==
    /\ s \notin live
    /\ SaveObject("create", s, Employee(p[1], p[2], p[3], None))
    /\ IF tableExists
       THEN /\ createLog' = Append(createLog, objs'[s])
            /\ onlyCreates' = onlyCreates
       ELSE UNCHANGED <<createLog, onlyCreates>>
    /\ UNCHANGED tableExists

\* employee.update()
update(s) ==
    /\ s \in live
    /\ LET e == objs[s]
       IN  IF tableExists
           THEN /\ rows' = UpdateRows(rows, e.name, e.job_title, e.department_id, e.id)
                /\ in_transaction' = AfterIO(in_transaction, update_io, TRUE)
                /\ Record(Call("update", s, Params(e) \o <<e.id>>, <<>>, FALSE,
                               update_io, Len(SelectById(rows, e.id))))
           ELSE /\ Record(Call("update", s, Params(e) \o <<e.id>>, <<>>, TRUE,
                               raised_io, 0))
                /\ UNCHANGED <<rows, in_transaction>>
    /\ UNCHANGED <<tableExists, lastrowid, live, objs, idHistory>>
    /\ OtherWrite

\* employee.delete()
delete(s) ==
    /\ s \in live
    /\ LET e == objs[s]
       IN  IF tableExists
           THEN /\ rows' = DeleteRows(rows, e.id)
                /\ in_transaction' = AfterIO(in_transaction, delete_io, TRUE)
                /\ Record(Call("delete", s, <<e.id>>, <<>>, FALSE, delete_io,
                               Len(rows) - Len(rows')))
           ELSE /\ Record(Call("delete", s, <<e.id>>, <<>>, TRUE, raised_io, 0))
                /\ UNCHANGED <<rows, in_transaction>>
    /\ UNCHANGED <<tableExists, lastrowid, live, objs, idHistory>>
    /\ OtherWrite

\* Employee.get_all()
get_all ==
    /\ IF tableExists
       THEN LET fetched == fetchall(SelectAll(rows))
            IN  /\ in_transaction' = AfterIO(in_transaction, get_all_io, FALSE)
                /\ Record(Call("get_all", 0, <<>>,
                               [i \in 1..Len(fetched) |-> new_from_db(fetched[i])],
                               FALSE, get_all_io, 0))
       ELSE /\ Record(Call("get_all", 0, <<>>, <<>>, TRUE, raised_io, 0))
            /\ UNCHANGED in_transaction
    /\ UNCHANGED <<tableExists, rows, lastrowid, live, objs,
                   idHistory, createLog, onlyCreates>>

\* Employee.find_by_id(id)
find_by_id(id) ==
    /\ IF tableExists
       THEN /\ in_transaction' = AfterIO(in_transaction, find_by_id_io, FALSE)
            /\ Record(Call("find_by_id", 0, <<id>>,
                           RowToResult(fetchone(SelectById(rows, id))),
                           FALSE, find_by_id_io, 0))
       ELSE /\ Record(Call("find_by_id", 0, <<id>>, <<>>, TRUE, raised_io, 0))
            /\ UNCHANGED in_transaction
    /\ UNCHANGED <<tableExists, rows, lastrowid, live, objs,
                   idHistory, createLog, onlyCreates>>

\* Employee.find_by_name(name)
find_by_name(name) ==
    /\ IF tableExists
       THEN /\ in_transaction' = AfterIO(in_transaction, find_by_name_io, FALSE)
            /\ Record(Call("find_by_name", 0, <<name>>,
                           RowToResult(fetchone(SelectByName(rows, name))),
                           FALSE, find_by_name_io, 0))
       ELSE /\ Record(Call("find_by_name", 0, <<name>>, <<>>, TRUE, raised_io, 0))
            /\ UNCHANGED in_transaction
    /\ UNCHANGED <<tableExists, rows, lastrowid, live, objs,
                   idHistory, createLog, onlyCreates>>

Next ==
    \/ create_table
    \/ drop_table
    \/ \E s \in Slots, p \in Inputs : construct(s, p)
    \/ \E s \in Slots, p \in Inputs : set_attributes(s, p)
    \/ \E s \in Slots : discard(s)
    \/ \E s \in Slots : save(s)
    \/ \E s \in Slots, p \in Inputs : create(s, p)
    \/ \E s \in Slots : update(s)
    \/ \E s \in Slots : delete(s)
    \/ get_all
    \/ \E id \in 0..MaxSaves : find_by_id(id)
    \/ \E n \in Names \cup {NoSuchName} : find_by_name(n)

Spec == Init /\ [][Next]_vars

\* ------------------------------------------------------------------ claims
\* The row a table holds for the employee e.
RowOf(e) == <<e.id, e.name, e.job_title, e.department_id>>

\* The position of the first `x` in the handle calls io; 0 if there is none.
Pos(io, x) ==
    IF \E i \in 1..Len(io) : io[i] = x
    THEN CHOOSE i \in 1..Len(io) : io[i] = x /\ \A j \in 1..(i - 1) : io[j] # x
    ELSE 0

\* C1. Round trip: e = create(name, job_title, department_id) followed by
\* find_by_id(e.id) returns an Employee whose id, name, job_title and
\* department_id equal those of e.
C1_RoundTrip ==
    ( /\ prev.op = "create"
      /\ call.op = "find_by_id"
      /\ ~call.raised
      /\ call.params = <<objs[prev.obj].id>> )
    => call.ret = <<objs[prev.obj]>>

C1_Witness ==
    /\ prev.op = "create"
    /\ call.op = "find_by_id"
    /\ ~call.raised
    /\ call.params = <<objs[prev.obj].id>>
    /\ call.ret # <<>>
    /\ Len(rows) = 2

\* C2. Uniqueness: two successive create calls return employees with
\* distinct ids, and no two rows of the table ever share an id.
C2_Uniqueness ==
    /\ ( /\ prev.op = "create"
         /\ call.op = "create"
         /\ ~call.raised )
       => call.ret[1].id # objs[prev.obj].id
    /\ \A i, j \in 1..Len(rows) : i # j => rows[i][1] # rows[j][1]

C2_Witness ==
    /\ prev.op = "create"
    /\ call.op = "create"
    /\ ~call.raised
    /\ prev.obj # call.obj
    /\ Len(rows) = 2

\* C3. Delete finality: after e.delete(), with e.id set, find_by_id(e.id)
\* returns None.
C3_DeleteFinality ==
    ( /\ prev.op = "delete"
      /\ call.op = "find_by_id"
      /\ ~call.raised
      /\ objs[prev.obj].id # None
      /\ call.params = <<objs[prev.obj].id>> )
    => call.ret = <<>>

C3_Witness ==
    /\ prev.op = "delete"
    /\ call.op = "find_by_id"
    /\ ~call.raised
    /\ objs[prev.obj].id # None
    /\ call.params = <<objs[prev.obj].id>>
    /\ rows # <<>>

\* C4. Starting from an empty table, after N create calls and no other
\* write, get_all returns exactly N Employees, and each has the name,
\* job_title and department_id passed to the create that returned its id.
C4_GetAll ==
    ( /\ call.op = "get_all"
      /\ ~call.raised
      /\ onlyCreates )
    => /\ Len(call.ret) = Len(createLog)
       /\ \A i \in 1..Len(createLog) :
             /\ Cardinality({j \in 1..Len(call.ret) :
                                call.ret[j].id = createLog[i].id}) = 1
             /\ \A j \in 1..Len(call.ret) :
                   call.ret[j].id = createLog[i].id => call.ret[j] = createLog[i]

C4_Witness ==
    /\ call.op = "get_all"
    /\ ~call.raised
    /\ onlyCreates
    /\ Len(createLog) >= 2
    /\ createLog[1].name # createLog[2].name

\* C5. The id of an Employee object, once a save has set it, is changed by
\* no later save, update or delete on that object.
C5_IdImmutable ==
    [][\A s \in Slots :
          (s \in live /\ s \in live' /\ objs[s].id # None)
          => objs'[s].id = objs[s].id]_vars

\* C6. update and delete on an employee whose id matches no row of the
\* table raise no error and change neither the table nor the employee.
C6_SilentNoOp ==
    [][( /\ call'.op \in {"update", "delete"}
         /\ tableExists
         /\ \A i \in 1..Len(rows) : rows[i][1] # objs[call'.obj].id )
       => /\ ~call'.raised
          /\ tableExists'
          /\ rows' = rows
          /\ objs' = objs]_vars

C6_Witness ==
    /\ call.op \in {"update", "delete"}
    /\ ~call.raised
    /\ call.rowcount = 0
    /\ objs[call.obj].id # None
    /\ rows # <<>>
    /\ rows[1] # RowOf(objs[call.obj])

\* C7. Update idempotence: a second e.update() with the same field values
\* leaves the table as the first left it, and after either call the row
\* matching e.id holds e's name, job_title and department_id.
C7_UpdateIdempotent ==
    [][( /\ call.op = "update"
         /\ ~call.raised
         /\ call'.op = "update"
         /\ call'.obj = call.obj )
       => /\ rows' = rows
          /\ \A i \in 1..Len(rows) :
                rows[i][1] = objs[call.obj].id => rows[i] = RowOf(objs[call.obj])
          /\ \A i \in 1..Len(rows') :
                rows'[i][1] = objs'[call.obj].id => rows'[i] = RowOf(objs'[call.obj])]_vars

C7_Witness ==
    /\ prev.op = "update"
    /\ call.op = "update"
    /\ prev.obj = call.obj
    /\ ~call.raised
    /\ call.rowcount = 1
    /\ Len(rows) = 2

C9_NameLookup ==
    (call.op = "find_by_name" /\ ~call.raised)
    => LET matches == {i \in 1..Len(rows) : rows[i][2] = call.params[1]}
       IN  /\ Cardinality(matches) = 1
              => \A i \in matches :
                    call.ret = <<Employee(rows[i][2], rows[i][3], rows[i][4], rows[i][1])>>
           /\ matches = {} => call.ret = <<>>

C9_Witness ==
    /\ call.op = "find_by_name"
    /\ ~call.raised
    /\ Len(rows) = 2
    /\ rows[1][2] # call.params[1]
    /\ rows[2][2] = call.params[1]

\* C10 as stated. The id a save assigns differs from every id an earlier
\* save assigned, the ids of rows since deleted included.
C10_NeverReused ==
    \A i, j \in 1..Len(idHistory) : i # j => idHistory[i] # idHistory[j]

\* C10 as amended. The id a save assigns is one more than the largest id in
\* the table at that moment (1 in an empty table): it differs from the id
\* of every row then in the table, and may be the id of a row since deleted.
C10_NextAfterLargest ==
    (call.op \in {"save", "create"} /\ ~call.raised)
    => LET others == {rows[i][1] : i \in 1..(Len(rows) - 1)}
       IN  /\ rows # <<>>
           /\ rows[Len(rows)][1] = lastrowid
           /\ objs[call.obj].id = lastrowid
           /\ lastrowid \notin others
           /\ \A o \in others : o < lastrowid
           /\ lastrowid = 1 \/ (lastrowid - 1) \in others

\* A save has reused the id of a deleted row, and an employee object whose
\* row was deleted still holds that id.
C10_Witness ==
    /\ call.op \in {"save", "create"}
    /\ ~call.raised
    /\ Len(idHistory) = 2
    /\ idHistory[1] = idHistory[2]
    /\ \E s \in live \ {call.obj} : objs[s].id = lastrowid

=============================================================================
